---- MODULE Spec2Model ----
(***************************************************************************)
(* Console Tetris (src/tetris.py): the board / piece simulation and the    *)
(* frame loop of main(), as a state machine.                                *)
(*                                                                         *)
(* One frame of the loop is  poll -> [lock-in] -> fall -> [lock-in] ->      *)
(* render.  The lock-in code (lock_piece, clear_full_lines, the score      *)
(* update, spawn) appears three times in main(); its four statements are   *)
(* modelled as four consecutive steps so that their order is observable.   *)
(* Times are integers in hundredths of a second.                           *)
(*                                                                         *)
(* Console Snake (src/snake.py) is modelled in a section of its own with    *)
(* its own variables and specification (SpecSnake).                         *)
(***************************************************************************)
EXTENDS Integers, Sequences, FiniteSets, TLC

VARIABLES
    board,          \* list of BOARD_HEIGHT rows of BOARD_WIDTH cells
    score,
    level,
    total_cleared,
    fall_interval,  \* hundredths of a second
    piece,          \* kind of the active piece, None before the first spawn
    rotation,
    shape,          \* TETROMINOS[piece][rotation], None before the first spawn
    pos,            \* anchor <<x, y>>
    last_fall,      \* hundredths of a second
    now,            \* last value read from time.time()
    key,            \* the key read by term.inkey in this frame
    cleared,        \* lines removed by the last clear_full_lines
    pc,             \* position of main()
    ret,            \* which of the three copies of the lock-in code is running
    scr,            \* environment: which input script is played first
    ip,             \* environment: next token of the input script
    frames,         \* environment: frames polled after the script ended
    locked,         \* history: pieces locked so far
    ticks,          \* history: automatic fall attempts since the last spawn
    snake,          \* src/snake.py: list of cells <<x, y>>, head first
    direction,
    move_counter,
    snake_score,    \* score of main() in src/snake.py
    last_tick,      \* hundredths of a second
    snake_now,      \* now of main() in src/snake.py
    snake_key,      \* key of main() in src/snake.py
    snake_pc,       \* position of main() in src/snake.py
    term_size,      \* <<term.width, term.height>>
    moved,          \* history: direction of the last movement step
    snake_frames    \* environment: iterations of the snake loop so far

gameVars == <<board, score, level, total_cleared, fall_interval>>
pieceVars == <<piece, rotation, shape, pos>>
clockVars == <<last_fall, now>>
envVars == <<scr, ip, frames>>
histVars == <<locked, ticks>>
tetrisVars == <<gameVars, pieceVars, clockVars, key, cleared, pc, ret, envVars,
                histVars>>
snakeVars == <<snake, direction, move_counter, snake_score, last_tick,
               snake_now, snake_key, snake_pc, term_size, moved, snake_frames>>
vars == <<board, score, level, total_cleared, fall_interval, piece, rotation,
          shape, pos, last_fall, now, key, cleared, pc, ret, scr, ip, frames,
          locked, ticks, snakeVars>>

\* src/snake.py is not running.
SnakeAtRest ==
    /\ snake = <<>>
    /\ direction = "RIGHT"
    /\ move_counter = 0
    /\ snake_score = 0
    /\ last_tick = 0
    /\ snake_now = 0
    /\ snake_key = ""
    /\ snake_pc = "off"
    /\ term_size = <<0, 0>>
    /\ moved = "None"
    /\ snake_frames = 0

----------------------------------------------------------------------------
(* Game configuration *)

BOARD_WIDTH == 10
BOARD_HEIGHT == 20

None == "None"

Kinds == {"I", "O", "T", "S", "Z", "J", "L"}

\* Rotation state r (0..3) of kind k is TETROMINOS[k][r + 1].
TETROMINOS ==
    [ I |-> << << <<0, 1>>, <<1, 1>>, <<2, 1>>, <<3, 1>> >>,
               << <<2, 0>>, <<2, 1>>, <<2, 2>>, <<2, 3>> >>,
               << <<0, 2>>, <<1, 2>>, <<2, 2>>, <<3, 2>> >>,
               << <<1, 0>>, <<1, 1>>, <<1, 2>>, <<1, 3>> >> >>,
      O |-> << << <<1, 0>>, <<2, 0>>, <<1, 1>>, <<2, 1>> >>,
               << <<1, 0>>, <<2, 0>>, <<1, 1>>, <<2, 1>> >>,
               << <<1, 0>>, <<2, 0>>, <<1, 1>>, <<2, 1>> >>,
               << <<1, 0>>, <<2, 0>>, <<1, 1>>, <<2, 1>> >> >>,
      T |-> << << <<1, 0>>, <<0, 1>>, <<1, 1>>, <<2, 1>> >>,
               << <<1, 0>>, <<1, 1>>, <<2, 1>>, <<1, 2>> >>,
               << <<0, 1>>, <<1, 1>>, <<2, 1>>, <<1, 2>> >>,
               << <<1, 0>>, <<0, 1>>, <<1, 1>>, <<1, 2>> >> >>,
      S |-> << << <<1, 0>>, <<2, 0>>, <<0, 1>>, <<1, 1>> >>,
               << <<1, 0>>, <<1, 1>>, <<2, 1>>, <<2, 2>> >>,
               << <<1, 1>>, <<2, 1>>, <<0, 2>>, <<1, 2>> >>,
               << <<0, 0>>, <<0, 1>>, <<1, 1>>, <<1, 2>> >> >>,
      Z |-> << << <<0, 0>>, <<1, 0>>, <<1, 1>>, <<2, 1>> >>,
               << <<2, 0>>, <<1, 1>>, <<2, 1>>, <<1, 2>> >>,
               << <<0, 1>>, <<1, 1>>, <<1, 2>>, <<2, 2>> >>,
               << <<1, 0>>, <<0, 1>>, <<1, 1>>, <<0, 2>> >> >>,
      J |-> << << <<0, 0>>, <<0, 1>>, <<1, 1>>, <<2, 1>> >>,
               << <<1, 0>>, <<2, 0>>, <<1, 1>>, <<1, 2>> >>,
               << <<0, 1>>, <<1, 1>>, <<2, 1>>, <<2, 2>> >>,
               << <<1, 0>>, <<1, 1>>, <<0, 2>>, <<1, 2>> >> >>,
      L |-> << << <<2, 0>>, <<0, 1>>, <<1, 1>>, <<2, 1>> >>,
               << <<1, 0>>, <<1, 1>>, <<1, 2>>, <<2, 2>> >>,
               << <<0, 1>>, <<1, 1>>, <<2, 1>>, <<0, 2>> >>,
               << <<0, 0>>, <<1, 0>>, <<1, 1>>, <<1, 2>> >> >> ]

----------------------------------------------------------------------------
(* Helper functions *)

EmptyRow == [x \in 1..BOARD_WIDTH |-> None]

\* Cell (x, y) of the board is b[y + 1][x + 1].
create_board == [y \in 1..BOARD_HEIGHT |-> EmptyRow]

\* can_place without the test against the left edge: a negative column is a
\* Python index counted from the right.
can_place_NoLeftEdge(b, sh, p) ==
    \A i \in 1..Len(sh) :
        LET ax == sh[i][1] + p[1]
            ay == sh[i][2] + p[2]
        IN  /\ ax >= -BOARD_WIDTH /\ ax < BOARD_WIDTH /\ 0 <= ay /\ ay < BOARD_HEIGHT
            /\ b[ay + 1][(IF ax < 0 THEN ax + BOARD_WIDTH ELSE ax) + 1] = None

\* can_place without the test for occupied cells.
can_place_NoCollision(b, sh, p) ==
    \A i \in 1..Len(sh) :
        LET ax == sh[i][1] + p[1]
            ay == sh[i][2] + p[2]
        IN  /\ 0 <= ax /\ ax < BOARD_WIDTH /\ 0 <= ay /\ ay < BOARD_HEIGHT

can_place(b, sh, p) ==
    \A i \in 1..Len(sh) :
        LET ax == sh[i][1] + p[1]
            ay == sh[i][2] + p[2]
        IN  /\ 0 <= ax /\ ax < BOARD_WIDTH /\ 0 <= ay /\ ay < BOARD_HEIGHT
            /\ b[ay + 1][ax + 1] = None

\* A Python list index: i in -n..-1 counts from the end.
PyIndex(i, n) == IF i < 0 THEN i + n ELSE i

\* board[ay][ax] = piece.  An index outside -n..n-1 raises IndexError in the
\* source; that write is left out here (can_place has ruled it out before
\* every call).
SetCell(b, ax, ay, k) ==
    LET r == PyIndex(ay, BOARD_HEIGHT)
        c == PyIndex(ax, BOARD_WIDTH)
    IN  IF r \in 0..(BOARD_HEIGHT - 1) /\ c \in 0..(BOARD_WIDTH - 1)
        THEN [b EXCEPT ![r + 1][c + 1] = k]
        ELSE b

RECURSIVE LockFrom(_, _, _, _, _)
LockFrom(b, sh, p, k, i) ==
    IF i > Len(sh) THEN b
    ELSE LockFrom(SetCell(b, sh[i][1] + p[1], sh[i][2] + p[2], k), sh, p, k, i + 1)

\* lock_piece that skips the first cell of the shape.
lock_piece_SkipFirst(b, sh, p, k) == LockFrom(b, sh, p, k, 2)

lock_piece(b, sh, p, k) == LockFrom(b, sh, p, k, 1)

HasNone(row) == \E x \in 1..Len(row) : row[x] = None

RECURSIVE InsertEmpty(_, _)
InsertEmpty(rows, n) ==
    IF n <= 0 THEN rows ELSE InsertEmpty(<<EmptyRow>> \o rows, n - 1)

\* clear_full_lines that removes only the topmost full row of the board.
clear_full_lines_FirstOnly(b) ==
    LET full == {r \in 1..Len(b) : ~HasNone(b[r])}
    IN  IF full = {} THEN <<b, 0>>
        ELSE LET r0 == CHOOSE r \in full : \A q \in full : r <= q
             IN  <<InsertEmpty(SubSeq(b, 1, r0 - 1) \o SubSeq(b, r0 + 1, Len(b)), 1), 1>>

\* clear_full_lines with the fresh rows appended at the bottom.
clear_full_lines_Append(b) ==
    LET new_board == SelectSeq(b, HasNone)
        n == BOARD_HEIGHT - Len(new_board)
    IN  <<new_board \o [i \in 1..n |-> EmptyRow], n>>

\* <<new_board, cleared>>
clear_full_lines(b) ==
    LET new_board == SelectSeq(b, HasNone)
        n == BOARD_HEIGHT - Len(new_board)
    IN  <<InsertEmpty(new_board, n), n>>

Max(a, b) == IF a >= b THEN a ELSE b

\* The level rounded up instead of down.
LevelOf_Ceil(total) == (total + 9) \div 10

\* level = total_cleared // 10 + 1
LevelOf(total) == total \div 10 + 1

\* The fall interval without its floor of 0.1 s.
FallIntervalOf_NoFloor(lv) == 50 - (lv - 1) * 4

\* fall_interval = max(0.1, 0.5 - (level - 1) * 0.04), in hundredths
FallIntervalOf(lv) == Max(10, 50 - (lv - 1) * 4)

\* A score linear in the number of lines.
ScoreGain_Linear(n) == n * 100

\* (cleared ** 2) * 100
ScoreGain(n) == (n * n) * 100

\* The spawn anchor without the shift by half the 4x4 frame.
SpawnPos_NoShift == <<BOARD_WIDTH \div 2, 0>>

\* pos = (BOARD_WIDTH // 2 - 2, 0)
SpawnPos == <<BOARD_WIDTH \div 2 - 2, 0>>

\* A drop loop that tests the row after the next one: it stops one row early.
RECURSIVE HardDropPos_StopEarly(_, _, _)
HardDropPos_StopEarly(b, sh, p) ==
    IF can_place(b, sh, <<p[1], p[2] + 2>>)
    THEN HardDropPos_StopEarly(b, sh, <<p[1], p[2] + 1>>)
    ELSE p

\* The hard-drop loop: while can_place(board, shape, (x, y + 1)): y += 1
RECURSIVE HardDropPos(_, _, _)
HardDropPos(b, sh, p) ==
    IF can_place(b, sh, <<p[1], p[2] + 1>>)
    THEN HardDropPos(b, sh, <<p[1], p[2] + 1>>)
    ELSE p

----------------------------------------------------------------------------
(* Environment: the keys the player presses and the kinds random.choice     *)
(* draws.  A run first plays one of the input scripts below from the        *)
(* program's initial state (every frame of it takes less than a hundredth   *)
(* of a second), after which keys, kinds and frame durations are arbitrary  *)
(* for MaxFrames frames.                                                    *)

MaxFrames == 2

KEY_LEFT == "KEY_LEFT"
KEY_RIGHT == "KEY_RIGHT"
KEY_DOWN == "KEY_DOWN"
KEY_UP == "KEY_UP"
NoKey == ""

\* Recognised keys, an unrecognised one ("x") and the poll timeout (NoKey).
Keys == {KEY_LEFT, KEY_RIGHT, KEY_DOWN, KEY_UP, "w", " ", "q", "x", NoKey}

\* Frame durations in hundredths of a second.
TimeSteps == {5, 50}

\* term.inkey(timeout=0.05)
PollTimeout == 5

Rep(tok, n) == [i \in 1..n |-> tok]

RECURSIVE Times(_, _)
Times(s, n) == IF n <= 0 THEN <<>> ELSE s \o Times(s, n - 1)

\* Kind k is drawn, rotated r times at the spawn position and moved to
\* anchor column x.
Aim(k, r, x) ==
    <<k>> \o Rep(KEY_UP, r)
          \o (IF x < 3 THEN Rep(KEY_LEFT, 3 - x) ELSE Rep(KEY_RIGHT, x - 3))

\* ... and hard-dropped there.
Put(k, r, x) == Aim(k, r, x) \o <<" ">>

\* Five O pieces side by side: two full lines.
O5 == Put("O", 0, -1) \o Put("O", 0, 1) \o Put("O", 0, 3) \o Put("O", 0, 5)
      \o Put("O", 0, 7)

O4 == Put("O", 0, -1) \o Put("O", 0, 1) \o Put("O", 0, 3) \o Put("O", 0, 5)

\* Columns 1..8 of two rows.
O8 == Put("O", 0, 0) \o Put("O", 0, 2) \o Put("O", 0, 4) \o Put("O", 0, 6)

\* One full line and the upper half of an O left on top of it.
Line1 == Put("I", 0, 0) \o Put("I", 0, 4) \o Put("O", 0, 7)

\* An O is moved left and right between the automatic falls, which come
\* with every tenth poll that times out, until the 19th of them locks it.
Stall ==
    <<"O">> \o Times(<<KEY_LEFT, KEY_RIGHT>> \o Rep(NoKey, 10), 19) \o <<"I">>

\* Each kind in turn is rotated four times at the spawn position; all but
\* the last are then hard-dropped.
RotateAll ==
    Put("I", 4, 3) \o Put("O", 4, 3) \o Put("T", 4, 3) \o Put("S", 4, 3)
      \o Put("Z", 4, 3) \o Put("J", 4, 3) \o Aim("L", 4, 3)

Scripts ==
    << <<>>,
       Aim("I", 0, 0),
       Aim("I", 0, 6),
       Aim("T", 1, -1),
       Aim("I", 1, -2),
       Aim("T", 0, 3) \o Rep(KEY_DOWN, 17),
       Put("I", 1, 0) \o Aim("T", 1, 2) \o Rep(KEY_DOWN, 16),
       Put("I", 0, 0) \o Put("I", 0, 4) \o Aim("O", 0, 7),
       O4 \o Aim("O", 0, 7) \o Rep(KEY_DOWN, 18),
       O8 \o Put("I", 0, 3) \o Put("I", 0, 1) \o Put("I", 0, 5)
          \o Put("I", 1, 7) \o Aim("I", 1, -2),
       O8 \o O8 \o Put("I", 1, 7) \o Aim("I", 1, -2),
       Times(O5, 54) \o O4 \o Aim("O", 0, 7),
       Line1 \o Times(O5, 54) \o O4 \o Aim("O", 0, 7),
       Times(Put("I", 1, 3), 4) \o Put("O", 0, 3) \o <<"O">>,
       Stall,
       RotateAll >>

Script == Scripts[scr]

\* The time the current frame has taken when time.time() is read: while the
\* script is played a key is there at once and no key means the poll timed out.
FrameTimes ==
    IF scr = 0 THEN {fall_interval}
    ELSE IF frames = 0 THEN {IF key = NoKey THEN PollTimeout ELSE 0}
    ELSE TimeSteps

InScript == ip <= Len(Script)

\* The kinds of an unattended game (scr = 0) are arbitrary for the first
\* MaxIdleKinds pieces, after which the last of them is drawn again and again.
MaxIdleKinds == 2

\* The token the environment supplies next: the script's, or any token within
\* the budget of free frames.  In an unattended game no key is ever pressed
\* and every frame lasts as long as the fall interval.
Supplies(tok, budget) ==
    IF scr = 0
    THEN /\ IF budget = 1 THEN tok = NoKey
            ELSE locked < MaxIdleKinds \/ tok = piece
         /\ UNCHANGED <<ip, frames>>
    ELSE IF InScript
    THEN /\ Script[ip] = tok
         /\ ip' = ip + 1
         /\ frames' = frames
    ELSE /\ frames + budget <= MaxFrames
         /\ frames' = frames + budget
         /\ ip' = ip

----------------------------------------------------------------------------
(* main() *)

\* The state in which main() enters its loop.
Start ==
    /\ board = create_board
    /\ score = 0
    /\ level = 1
    /\ total_cleared = 0
    /\ fall_interval = 50
    /\ piece = None
    /\ rotation = 0
    /\ shape = <<>>
    /\ pos = <<0, 0>>
    /\ last_fall = 0
    /\ now = 0
    /\ key = NoKey
    /\ cleared = 0
    /\ pc = "spawn"
    /\ ret = "start"
    /\ ip = 1
    /\ frames = 0
    /\ locked = 0
    /\ ticks = 0

Init == Start /\ scr \in 1..Len(Scripts) /\ SnakeAtRest

\* spawn() whose result is not tested: the loop goes on after a failed spawn.
Spawn_IgnoreResult ==
    /\ pc = "spawn"
    /\ \E k \in Kinds :
        /\ Supplies(k, 0)
        /\ piece' = k
        /\ rotation' = 0
        /\ shape' = TETROMINOS[k][1]
        /\ pos' = SpawnPos
        /\ CASE ret = "start" -> /\ last_fall' = now
                                 /\ pc' = "poll"
             [] ret = "key"   -> /\ last_fall' = last_fall
                                 /\ pc' = "fall"
             [] OTHER         -> /\ last_fall' = now
                                 /\ pc' = "render"
    /\ UNCHANGED <<gameVars, now, key, cleared, ret, scr>>
    /\ ticks' = 0
    /\ UNCHANGED <<locked, snakeVars>>

\* spawn() and the test of its result at each of its four call sites.
Spawn ==
    /\ pc = "spawn"
    /\ \E k \in Kinds :
        /\ Supplies(k, 0)
        /\ piece' = k
        /\ rotation' = 0
        /\ shape' = TETROMINOS[k][1]
        /\ pos' = SpawnPos
        /\ IF can_place(board, shape', pos')
           THEN CASE ret = "start" -> /\ last_fall' = now
                                      /\ pc' = "poll"
                  [] ret = "key"   -> /\ last_fall' = last_fall
                                      /\ pc' = "fall"
                  [] OTHER         -> /\ last_fall' = now
                                      /\ pc' = "render"
           ELSE /\ last_fall' = last_fall
                /\ pc' = IF ret = "start" THEN "toosmall" ELSE "over"
    /\ UNCHANGED <<gameVars, now, key, cleared, ret, scr>>
    /\ ticks' = 0
    /\ UNCHANGED <<locked, snakeVars>>

\* key = term.inkey(timeout=0.05)
ReadKey(k) ==
    /\ pc = "poll"
    /\ Supplies(k, 1)
    /\ key' = k
    /\ UNCHANGED scr

KeyLeft ==
    /\ ReadKey(KEY_LEFT)
    /\ LET new_pos == <<pos[1] - 1, pos[2]>>
       IN  pos' = IF can_place(board, shape, new_pos) THEN new_pos ELSE pos
    /\ pc' = "fall"
    /\ UNCHANGED <<gameVars, piece, rotation, shape, clockVars, cleared, ret>>
    /\ UNCHANGED <<histVars, snakeVars>>

KeyRight ==
    /\ ReadKey(KEY_RIGHT)
    /\ LET new_pos == <<pos[1] + 1, pos[2]>>
       IN  pos' = IF can_place(board, shape, new_pos) THEN new_pos ELSE pos
    /\ pc' = "fall"
    /\ UNCHANGED <<gameVars, piece, rotation, shape, clockVars, cleared, ret>>
    /\ UNCHANGED <<histVars, snakeVars>>

KeyDown ==
    /\ ReadKey(KEY_DOWN)
    /\ LET new_pos == <<pos[1], pos[2] + 1>>
       IN  IF can_place(board, shape, new_pos)
           THEN /\ pos' = new_pos
                /\ pc' = "fall"
                /\ ret' = ret
           ELSE /\ pos' = pos
                /\ pc' = "lock"
                /\ ret' = "key"
    /\ UNCHANGED <<gameVars, piece, rotation, shape, clockVars, cleared>>
    /\ UNCHANGED <<histVars, snakeVars>>

\* A rotation that tries the anchor one column to the right when the rotated
\* shape does not fit (a wall kick).
KeyRotate_WallKick ==
    /\ \E k \in {KEY_UP, "w"} : ReadKey(k)
    /\ LET next_rot == (rotation + 1) % Len(TETROMINOS[piece])
           next_shape == TETROMINOS[piece][next_rot + 1]
           kick == <<pos[1] + 1, pos[2]>>
       IN  IF can_place(board, next_shape, pos)
           THEN /\ rotation' = next_rot
                /\ shape' = next_shape
                /\ pos' = pos
           ELSE IF can_place(board, next_shape, kick)
           THEN /\ rotation' = next_rot
                /\ shape' = next_shape
                /\ pos' = kick
           ELSE UNCHANGED <<rotation, shape, pos>>
    /\ pc' = "fall"
    /\ UNCHANGED <<gameVars, piece, clockVars, cleared, ret>>
    /\ UNCHANGED <<histVars, snakeVars>>

\* A rotation that steps to the previous rotation state (counter-clockwise).
KeyRotate_Backward ==
    /\ \E k \in {KEY_UP, "w"} : ReadKey(k)
    /\ LET next_rot == (rotation + 3) % Len(TETROMINOS[piece])
           next_shape == TETROMINOS[piece][next_rot + 1]
       IN  IF can_place(board, next_shape, pos)
           THEN /\ rotation' = next_rot
                /\ shape' = next_shape
           ELSE UNCHANGED <<rotation, shape>>
    /\ pc' = "fall"
    /\ UNCHANGED <<gameVars, piece, pos, clockVars, cleared, ret>>
    /\ UNCHANGED <<histVars, snakeVars>>

\* A rotation that tries the anchor one row up when the rotated shape does
\* not fit (a floor kick).
KeyRotate_FloorKick ==
    /\ \E k \in {KEY_UP, "w"} : ReadKey(k)
    /\ LET next_rot == (rotation + 1) % Len(TETROMINOS[piece])
           next_shape == TETROMINOS[piece][next_rot + 1]
           kick == <<pos[1], pos[2] - 1>>
       IN  IF can_place(board, next_shape, pos)
           THEN /\ rotation' = next_rot
                /\ shape' = next_shape
                /\ pos' = pos
           ELSE IF can_place(board, next_shape, kick)
           THEN /\ rotation' = next_rot
                /\ shape' = next_shape
                /\ pos' = kick
           ELSE UNCHANGED <<rotation, shape, pos>>
    /\ pc' = "fall"
    /\ UNCHANGED <<gameVars, piece, clockVars, cleared, ret>>
    /\ UNCHANGED <<histVars, snakeVars>>

KeyRotate ==
    /\ \E k \in {KEY_UP, "w"} : ReadKey(k)
    /\ LET next_rot == (rotation + 1) % Len(TETROMINOS[piece])
           next_shape == TETROMINOS[piece][next_rot + 1]
       IN  IF can_place(board, next_shape, pos)
           THEN /\ rotation' = next_rot
                /\ shape' = next_shape
           ELSE UNCHANGED <<rotation, shape>>
    /\ pc' = "fall"
    /\ UNCHANGED <<gameVars, piece, pos, clockVars, cleared, ret>>
    /\ UNCHANGED <<histVars, snakeVars>>

KeyHardDrop ==
    /\ ReadKey(" ")
    /\ pos' = HardDropPos(board, shape, pos)
    /\ pc' = "lock"
    /\ ret' = "key"
    /\ UNCHANGED <<gameVars, piece, rotation, shape, clockVars, cleared>>
    /\ UNCHANGED <<histVars, snakeVars>>

\* A quit key that is passed over: the frame goes on and the loop continues.
KeyQuit_Continue ==
    /\ ReadKey("q")
    /\ pc' = "fall"
    /\ UNCHANGED <<gameVars, pieceVars, clockVars, cleared, ret>>
    /\ UNCHANGED <<histVars, snakeVars>>

KeyQuit ==
    /\ ReadKey("q")
    /\ pc' = "quit"
    /\ UNCHANGED <<gameVars, pieceVars, clockVars, cleared, ret>>
    /\ UNCHANGED <<histVars, snakeVars>>

\* An unrecognised key handled like a soft drop that cannot lock.
KeyOther_Drops ==
    /\ \E k \in {NoKey, "x"} : ReadKey(k)
    /\ LET new_pos == <<pos[1], pos[2] + 1>>
       IN  pos' = IF key' = "x" /\ can_place(board, shape, new_pos)
                  THEN new_pos ELSE pos
    /\ pc' = "fall"
    /\ UNCHANGED <<gameVars, piece, rotation, shape, clockVars, cleared, ret>>
    /\ UNCHANGED <<histVars, snakeVars>>

\* No key within the timeout, or a key no branch matches.
KeyOther ==
    /\ \E k \in {NoKey, "x"} : ReadKey(k)
    /\ pc' = "fall"
    /\ UNCHANGED <<gameVars, pieceVars, clockVars, cleared, ret>>
    /\ UNCHANGED <<histVars, snakeVars>>

\* The lock-in code without its call of clear_full_lines.
LockPiece_SkipClear ==
    /\ pc = "lock"
    /\ board' = lock_piece(board, shape, pos, piece)
    /\ pc' = "score"
    /\ UNCHANGED <<score, level, total_cleared, fall_interval, pieceVars,
                   clockVars, key, cleared, ret, envVars>>
    /\ locked' = locked + 1
    /\ UNCHANGED <<ticks, snakeVars>>

\* The lock-in code, statement by statement.
LockPiece ==
    /\ pc = "lock"
    /\ board' = lock_piece(board, shape, pos, piece)
    /\ pc' = "clear"
    /\ UNCHANGED <<score, level, total_cleared, fall_interval, pieceVars,
                   clockVars, key, cleared, ret, envVars>>
    /\ locked' = locked + 1
    /\ UNCHANGED <<ticks, snakeVars>>

ClearLines ==
    /\ pc = "clear"
    /\ board' = clear_full_lines(board)[1]
    /\ cleared' = clear_full_lines(board)[2]
    /\ pc' = "score"
    /\ UNCHANGED <<score, level, total_cleared, fall_interval, pieceVars,
                   clockVars, key, ret, envVars>>
    /\ UNCHANGED <<histVars, snakeVars>>

\* A score update that also awards 10 points for every locked piece.
UpdateScore_LockBonus ==
    /\ pc = "score"
    /\ IF cleared # 0
       THEN /\ total_cleared' = total_cleared + cleared
            /\ score' = score + ScoreGain(cleared) + 10
            /\ level' = LevelOf(total_cleared')
            /\ fall_interval' = FallIntervalOf(level')
       ELSE /\ score' = score + 10
            /\ UNCHANGED <<total_cleared, level, fall_interval>>
    /\ pc' = "spawn"
    /\ UNCHANGED <<board, pieceVars, clockVars, key, cleared, ret, envVars>>
    /\ UNCHANGED <<histVars, snakeVars>>

UpdateScore ==
    /\ pc = "score"
    /\ IF cleared # 0
       THEN /\ total_cleared' = total_cleared + cleared
            /\ score' = score + ScoreGain(cleared)
            /\ level' = LevelOf(total_cleared')
            /\ fall_interval' = FallIntervalOf(level')
       ELSE UNCHANGED <<total_cleared, score, level, fall_interval>>
    /\ pc' = "spawn"
    /\ UNCHANGED <<board, pieceVars, clockVars, key, cleared, ret, envVars>>
    /\ UNCHANGED <<histVars, snakeVars>>

\* The fall check with a strict comparison: now - last_fall > fall_interval.
AutoFall_StrictlyLater ==
    /\ pc = "fall"
    /\ \E d \in FrameTimes : now' = now + d
    /\ IF now' - last_fall > fall_interval
       THEN LET new_pos == <<pos[1], pos[2] + 1>>
            IN  IF can_place(board, shape, new_pos)
                THEN /\ pos' = new_pos
                     /\ last_fall' = now'
                     /\ pc' = "render"
                     /\ ret' = ret
                ELSE /\ pos' = pos
                     /\ last_fall' = last_fall
                     /\ pc' = "lock"
                     /\ ret' = "tick"
       ELSE /\ pc' = "render"
            /\ UNCHANGED <<pos, last_fall, ret>>
    /\ UNCHANGED <<gameVars, piece, rotation, shape, key, cleared, envVars>>
    /\ ticks' = IF now' - last_fall > fall_interval THEN ticks + 1 ELSE ticks
    /\ UNCHANGED <<locked, snakeVars>>

\* now = time.time(); if now - last_fall >= fall_interval: ...
AutoFall ==
    /\ pc = "fall"
    /\ \E d \in FrameTimes : now' = now + d
    /\ IF now' - last_fall >= fall_interval
       THEN LET new_pos == <<pos[1], pos[2] + 1>>
            IN  IF can_place(board, shape, new_pos)
                THEN /\ pos' = new_pos
                     /\ last_fall' = now'
                     /\ pc' = "render"
                     /\ ret' = ret
                ELSE /\ pos' = pos
                     /\ last_fall' = last_fall
                     /\ pc' = "lock"
                     /\ ret' = "tick"
       ELSE /\ pc' = "render"
            /\ UNCHANGED <<pos, last_fall, ret>>
    /\ UNCHANGED <<gameVars, piece, rotation, shape, key, cleared, envVars>>
    /\ ticks' = IF now' - last_fall >= fall_interval THEN ticks + 1 ELSE ticks
    /\ UNCHANGED <<locked, snakeVars>>

\* draw_board and the score line: no state of the game changes.
Render ==
    /\ pc = "render"
    /\ pc' = "poll"
    /\ UNCHANGED <<gameVars, pieceVars, clockVars, key, cleared, ret, envVars>>
    /\ UNCHANGED <<histVars, snakeVars>>

Next ==
    \/ Spawn
    \/ KeyLeft
    \/ KeyRight
    \/ KeyDown
    \/ KeyRotate
    \/ KeyHardDrop
    \/ KeyQuit
    \/ KeyOther
    \/ LockPiece
    \/ ClearLines
    \/ UpdateScore
    \/ AutoFall
    \/ Render

Spec == Init /\ [][Next]_vars

----------------------------------------------------------------------------
(* The unattended game: no key is ever pressed, the loop keeps running and   *)
(* every frame is long enough for a fall tick.                               *)

InitIdle == Start /\ scr = 0 /\ SnakeAtRest

NextIdle ==
    \/ Spawn
    \/ KeyOther
    \/ LockPiece
    \/ ClearLines
    \/ UpdateScore
    \/ AutoFall
    \/ Render

\* The loop of main() does not stop by itself: some step is always taken
\* while one is possible.
SpecIdle == InitIdle /\ [][NextIdle]_vars /\ WF_vars(NextIdle)

----------------------------------------------------------------------------
(* Console Snake (src/snake.py): the loop of main().  One iteration is      *)
(* poll -> tick.  Times are integers in hundredths of a second.             *)

DIRS ==
    [ LEFT |-> <<-1, 0>>, RIGHT |-> <<1, 0>>, UP |-> <<0, -1>>, DOWN |-> <<0, 1>> ]

OPPOSITE == [ LEFT |-> "RIGHT", RIGHT |-> "LEFT", UP |-> "DOWN", DOWN |-> "UP" ]

\* BOARD_WIDTH = term.width and BOARD_HEIGHT = term.height - 1 of src/snake.py
SnakeBoardWidth == term_size[1]
SnakeBoardHeight == term_size[2] - 1

\* Terminal sizes <<width, height>>.
TermSizes == { <<8, 7>>, <<10, 5>> }

init_snake ==
    LET cx == SnakeBoardWidth \div 2
        cy == SnakeBoardHeight \div 2
    IN  << <<cx, cy>>, <<cx - 1, cy>>, <<cx - 2, cy>> >>

\* speed = 0.12
speed == 12

\* Durations of one iteration in hundredths of a second: the poll timeout
\* (term.inkey(timeout=0.01)) or a whole step interval.
SnakeTimeSteps == {1, speed}

\* Iterations of the snake loop.
MaxSnakeFrames == 4

InitSnake ==
    /\ Start
    /\ scr = 1
    /\ term_size \in TermSizes
    /\ snake = init_snake
    /\ direction = "RIGHT"
    /\ move_counter = 0
    /\ snake_score = 0
    /\ last_tick = 0
    /\ snake_now = 0
    /\ snake_key = NoKey
    /\ snake_pc = "poll"
    /\ moved = "None"
    /\ snake_frames = 0

\* key = term.inkey(timeout=0.01)
SnakeReadKey(k) ==
    /\ snake_pc = "poll"
    /\ snake_frames < MaxSnakeFrames
    /\ snake_frames' = snake_frames + 1
    /\ snake_key' = k
    /\ UNCHANGED <<snake, move_counter, snake_score, last_tick, snake_now,
                   term_size, moved, tetrisVars>>

TurnLeft ==
    /\ SnakeReadKey(KEY_LEFT)
    /\ direction' = IF direction # "RIGHT" THEN "LEFT" ELSE direction
    /\ snake_pc' = "tick"

TurnRight ==
    /\ SnakeReadKey(KEY_RIGHT)
    /\ direction' = IF direction # "LEFT" THEN "RIGHT" ELSE direction
    /\ snake_pc' = "tick"

TurnUp ==
    /\ SnakeReadKey(KEY_UP)
    /\ direction' = IF direction # "DOWN" THEN "UP" ELSE direction
    /\ snake_pc' = "tick"

TurnDown ==
    /\ SnakeReadKey(KEY_DOWN)
    /\ direction' = IF direction # "UP" THEN "DOWN" ELSE direction
    /\ snake_pc' = "tick"

SnakeQuit ==
    /\ SnakeReadKey("q")
    /\ snake_pc' = "quit"
    /\ UNCHANGED direction

\* No key within the timeout, or a key no branch matches.
SnakeOther ==
    /\ \E k \in {NoKey, "x"} : SnakeReadKey(k)
    /\ snake_pc' = "tick"
    /\ UNCHANGED direction

\* now = time.time(); if now - last_tick >= speed: ...
SnakeStep ==
    /\ snake_pc = "tick"
    /\ \E d \in SnakeTimeSteps : snake_now' = snake_now + d
    /\ IF snake_now' - last_tick >= speed
       THEN LET new_head == <<snake[1][1] + DIRS[direction][1],
                              snake[1][2] + DIRS[direction][2]>>
                grown == <<new_head>> \o snake
            IN  /\ last_tick' = snake_now'
                /\ move_counter' = move_counter + 1
                /\ moved' = direction
                /\ IF ~( /\ 0 <= new_head[1] /\ new_head[1] < SnakeBoardWidth
                         /\ 0 <= new_head[2] /\ new_head[2] < SnakeBoardHeight )
                   THEN /\ snake_pc' = "over_wall"
                        /\ UNCHANGED <<snake, snake_score>>
                   ELSE IF \E i \in 1..Len(snake) : snake[i] = new_head
                   THEN /\ snake_pc' = "over_self"
                        /\ UNCHANGED <<snake, snake_score>>
                   ELSE /\ snake_pc' = "poll"
                        /\ IF move_counter' % 2 = 0
                           THEN /\ snake' = SubSeq(grown, 1, Len(grown) - 1)
                                /\ snake_score' = snake_score
                           ELSE /\ snake' = grown
                                /\ snake_score' = snake_score + 1
       ELSE /\ snake_pc' = "poll"
            /\ UNCHANGED <<snake, move_counter, snake_score, last_tick, moved>>
    /\ UNCHANGED <<direction, snake_key, term_size, snake_frames, tetrisVars>>

NextSnake ==
    \/ TurnLeft
    \/ TurnRight
    \/ TurnUp
    \/ TurnDown
    \/ SnakeQuit
    \/ SnakeOther
    \/ SnakeStep

SpecSnake == InitSnake /\ [][NextSnake]_vars

----------------------------------------------------------------------------
(* clear_full_lines on its own: one call on each board of ClearInputs.  The  *)
(* lowest MaxVarRows rows are each full, empty or partly filled, the rows    *)
(* above are all of one of these sorts; partly filled rows differ from each  *)
(* other.                                                                    *)

MaxVarRows == 5

RowOf(t, r) ==
    CASE t = "F" -> [x \in 1..BOARD_WIDTH |-> "I"]
      [] t = "P" -> [x \in 1..BOARD_WIDTH |->
                        IF x = ((r - 1) % BOARD_WIDTH) + 1 THEN None
                        ELSE IF r <= BOARD_WIDTH THEN "T" ELSE "S"]
      [] OTHER   -> EmptyRow

ClearInputs ==
    { [r \in 1..BOARD_HEIGHT |->
          IF r > BOARD_HEIGHT - MaxVarRows THEN RowOf(f[r], r) ELSE RowOf(fill, r)] :
        f \in [(BOARD_HEIGHT - MaxVarRows + 1)..BOARD_HEIGHT -> {"F", "E", "P"}],
        fill \in {"F", "E", "P"} }

InitClear ==
    /\ board \in ClearInputs
    /\ score = 0
    /\ level = 1
    /\ total_cleared = 0
    /\ fall_interval = 50
    /\ piece = None
    /\ rotation = 0
    /\ shape = <<>>
    /\ pos = <<0, 0>>
    /\ last_fall = 0
    /\ now = 0
    /\ key = NoKey
    /\ cleared = 0
    /\ pc = "clear"
    /\ ret = "key"
    /\ scr = 1
    /\ ip = 1
    /\ frames = 0
    /\ locked = 0
    /\ ticks = 0
    /\ SnakeAtRest

NextClear == ClearLines

SpecClear == InitClear /\ [][NextClear]_vars

----------------------------------------------------------------------------
(* Properties *)

\* The absolute cells <<x, y>> of shape sh anchored at p.
CellsAt(sh, p) == {<<sh[i][1] + p[1], sh[i][2] + p[2]>> : i \in 1..Len(sh)}

\* The absolute cells of the active piece (none before the first spawn).
PieceCells == CellsAt(shape, pos)

InBoard(c) ==
    /\ 0 <= c[1] /\ c[1] < BOARD_WIDTH
    /\ 0 <= c[2] /\ c[2] < BOARD_HEIGHT

\* Cell c of board b holds a piece kind.
IsOccupied(b, c) == InBoard(c) /\ b[c[2] + 1][c[1] + 1] # None

\* Every cell of sh at p is on the board and empty.
Fits(b, sh, p) == \A c \in CellsAt(sh, p) : InBoard(c) /\ ~IsOccupied(b, c)

\* C1. Bounds invariant: every occupied board cell and every absolute cell of
\* the active piece has 0 <= x < BOARD_WIDTH and 0 <= y < BOARD_HEIGHT.
C1_Bounds ==
    /\ \A r \in DOMAIN board : \A c \in DOMAIN board[r] :
           board[r][c] # None => InBoard(<<c - 1, r - 1>>)
    /\ \A c \in PieceCells : InBoard(c)

\* A right move was rejected at the right edge, above a board that holds
\* locked pieces.
C1_Witness ==
    /\ pc = "fall"
    /\ key = KEY_RIGHT
    /\ frames >= 1
    /\ \E c \in PieceCells : c[1] = BOARD_WIDTH - 1
    /\ board # create_board

\* C2 as claimed. No-overlap invariant after every key action, every fall tick
\* and every spawn: no cell of the active piece is an occupied board cell.
C2_NoOverlapEverySpawn ==
    pc \in {"poll", "fall", "render", "lock", "quit", "over", "toosmall"}
        => \A c \in PieceCells : ~IsOccupied(board, c)

\* C2, amended. While the session has not ended in Game Over, no cell of the
\* active piece is an occupied board cell: after every key action, every fall
\* tick and every spawn that succeeds.
C2_NoOverlap ==
    pc \in {"poll", "fall", "render", "lock", "quit", "toosmall"}
        => \A c \in PieceCells : ~IsOccupied(board, c)

\* A left move was rejected because a locked cell is in the way.
C2_Witness ==
    /\ pc = "fall"
    /\ key = KEY_LEFT
    /\ frames >= 1
    /\ \E c \in PieceCells : IsOccupied(board, <<c[1] - 1, c[2]>>)

DownPos == <<pos[1], pos[2] + 1>>

FullRows(b) == {r \in DOMAIN b : \A c \in DOMAIN b[r] : b[r][c] # None}

\* C3. Lock-in protocol ordering: a failed downward move (soft-drop key or
\* automatic fall tick) and a finished hard drop start the lock-in, whose steps
\* follow each other, with no render in between, in the order: the piece's
\* four cells are written into the board with its kind; all full lines are
\* cleared; score, total_cleared, level and fall_interval are updated; a new
\* piece is spawned.  No other step writes the board.
C3_LockInOrder ==
    [][ /\ (pc = "poll" /\ key' = KEY_DOWN /\ ~Fits(board, shape, DownPos))
              => pc' = "lock"
        /\ (pc = "poll" /\ key' = " ") => pc' = "lock"
        /\ (pc = "fall" /\ now' - last_fall >= fall_interval
                        /\ ~Fits(board, shape, DownPos))
              => pc' = "lock"
        /\ pc' = "lock" => /\ pc \in {"poll", "fall"}
                           /\ ~Fits(board', shape', DownPos')
        /\ pc = "lock" =>
              /\ pc' = "clear"
              /\ \A r \in 1..BOARD_HEIGHT : \A c \in 1..BOARD_WIDTH :
                    board'[r][c] = IF <<c - 1, r - 1>> \in PieceCells
                                   THEN piece ELSE board[r][c]
              /\ UNCHANGED <<score, total_cleared, level, fall_interval, pieceVars>>
        /\ pc = "clear" =>
              /\ pc' = "score"
              /\ FullRows(board') = {}
              /\ cleared' = Cardinality(FullRows(board))
              /\ UNCHANGED <<score, total_cleared, level, fall_interval, pieceVars>>
        /\ pc = "score" =>
              /\ pc' = "spawn"
              /\ total_cleared' = total_cleared + cleared
              /\ UNCHANGED <<board, pieceVars>>
        /\ pc = "spawn" =>
              /\ pc' \in {"poll", "fall", "render", "over", "toosmall"}
              /\ piece' \in Kinds
              /\ UNCHANGED <<board, score, total_cleared, level, fall_interval>>
        /\ board' # board => pc \in {"lock", "clear"}
      ]_vars

\* An automatic fall tick failed, the piece was locked, two lines were cleared
\* and scored, the next piece was spawned, and the frame is about to render.
C3_Witness ==
    /\ pc = "render"
    /\ ret = "tick"
    /\ frames >= 1
    /\ cleared = 2
    /\ score = 400
    /\ pos = SpawnPos
    /\ last_fall = now

\* The cells of a newly spawned piece of kind k.
SpawnCells(k) == CellsAt(TETROMINOS[k][1], <<3, 0>>)

\* C4. Game Over is entered exactly when a spawn (after the first) fails:
\* some cell of the new piece at anchor (3, 0), rotation 0, is occupied.
\* Apart from the quit key nothing else ends the session, and after Game Over
\* no step is taken: board, score, total_cleared and level stay as they are.
C4_GameOver ==
    [][ /\ pc' = "over" =>
              /\ pc = "spawn" /\ ret # "start"
              /\ rotation' = 0 /\ pos' = <<3, 0>>
              /\ \E c \in SpawnCells(piece') : IsOccupied(board, c)
        /\ (pc = "spawn" /\ ret # "start"
                         /\ \E c \in SpawnCells(piece') : IsOccupied(board, c))
              => pc' = "over"
        /\ pc = "over" => UNCHANGED vars
        /\ pc' = "quit" => pc = "poll" /\ key' = "q"
        /\ pc' \in {"poll", "fall", "render", "lock", "clear", "score", "spawn",
                    "over", "quit"}
      ]_vars

\* Game Over was reached: the piece that could not be spawned lies on
\* occupied cells.
C4_Witness ==
    /\ pc = "over"
    /\ frames >= 1
    /\ \E c \in PieceCells : IsOccupied(board, c)

NonFullRows(b) == DOMAIN b \ FullRows(b)

\* The k-th row of b, from the top, that is not full.
KthNonFull(b, k) ==
    CHOOSE r \in NonFullRows(b) : Cardinality({q \in NonFullRows(b) : q <= r}) = k

\* C5. clear_full_lines: the result has the same height and width, cleared is
\* the number of rows without an empty cell, the top `cleared` rows of the
\* result are empty, and below them come the non-full rows of the input in
\* their original order.
C5_ClearCorrect ==
    [][ pc = "clear" =>
          LET n == Cardinality(FullRows(board))
          IN  /\ cleared' = n
              /\ DOMAIN board' = 1..BOARD_HEIGHT
              /\ \A r \in DOMAIN board' : DOMAIN board'[r] = 1..BOARD_WIDTH
              /\ \A r \in 1..n : \A c \in 1..BOARD_WIDTH : board'[r][c] = None
              /\ \A r \in (n + 1)..BOARD_HEIGHT :
                     board'[r] = board[KthNonFull(board, r - n)]
      ]_vars

\* Rows [full, empty, full, full] below partly filled rows were cleared:
\* three lines, the original empty row now at the bottom, the partly filled
\* rows above it, three fresh rows on top.
C5_Witness ==
    /\ pc = "score"
    /\ cleared = 3
    /\ board[BOARD_HEIGHT] = EmptyRow
    /\ board[BOARD_HEIGHT - 1] = RowOf("P", BOARD_HEIGHT - 4)
    /\ board[4] = RowOf("P", 1)
    /\ \A r \in 1..3 : board[r] = EmptyRow

\* C6. Scoring law: a lock-in that clears `cleared` lines adds cleared^2 * 100
\* to score (0, 100, 400, 900, 1600 for 0..4 lines) and `cleared` to
\* total_cleared, whichever of the three triggers started it; no other step
\* changes score or total_cleared.
C6_ScoringLaw ==
    [][ /\ pc = "score" =>
              /\ ret \in {"key", "tick"}
              /\ cleared \in 0..4
              /\ score' - score = cleared * cleared * 100
              /\ score' - score = <<0, 100, 400, 900, 1600>>[cleared + 1]
              /\ total_cleared' - total_cleared = cleared
        /\ (score' # score \/ total_cleared' # total_cleared) => pc = "score"
      ]_vars

\* A hard drop cleared four lines at once and 1600 points were added.
C6_Witness ==
    /\ pc = "spawn"
    /\ key = " "
    /\ frames >= 1
    /\ cleared = 4
    /\ total_cleared = 4
    /\ score = 1600

\* C7. Level invariant: level = total_cleared div 10 + 1 and level >= 1 in
\* every state, and level never decreases.
C7_LevelInvariant ==
    /\ [](level = (total_cleared \div 10) + 1 /\ level >= 1)
    /\ [][level' >= level]_vars

\* The tenth line was passed: eleven lines, level 2.
C7_Witness ==
    /\ total_cleared = 11
    /\ level = 2
    /\ pc = "spawn"

\* C8. Fall-interval law, in hundredths of a second: fall_interval is
\* max(10, 50 - (level - 1) * 4) in every state; 50 at level 1, 46 from the
\* tenth line on (level 2), 10 from the hundredth line on, never below 10,
\* and it never increases.
C8_FallInterval ==
    /\ [] /\ fall_interval =
                (IF 50 - (level - 1) * 4 >= 10 THEN 50 - (level - 1) * 4 ELSE 10)
          /\ level = 1 => fall_interval = 50
          /\ total_cleared \in 10..19 => fall_interval = 46
          /\ total_cleared >= 100 => fall_interval = 10
          /\ fall_interval >= 10
    /\ [][fall_interval' <= fall_interval]_vars

\* Level 12 was reached by a key pressed freely: the interval stays at its
\* floor.
C8_Witness ==
    /\ total_cleared >= 110
    /\ level = 12
    /\ fall_interval = 10
    /\ frames >= 1

\* C9. Spawn placement: every spawn sets rotation 0 and anchor
\* (BOARD_WIDTH div 2 - 2, 0) = (3, 0), whatever the previous piece's state
\* was; each kind fits there on an empty board, a spawn on an empty board
\* succeeds, and the 'board too small' exit is never taken.
C9_SpawnPlacement ==
    /\ [] /\ pc # "toosmall"
          /\ \A k \in Kinds : Fits(create_board, TETROMINOS[k][1], SpawnPos)
    /\ [][ pc = "spawn" =>
             /\ rotation' = 0
             /\ pos' = <<3, 0>>
             /\ pos' = <<BOARD_WIDTH \div 2 - 2, 0>>
             /\ shape' = TETROMINOS[piece'][1]
             /\ (\A r \in DOMAIN board : \A c \in DOMAIN board[r] : board[r][c] = None)
                   => pc' \in {"poll", "fall", "render"}
         ]_vars

\* A piece that had been rotated and moved to the left edge was hard-dropped,
\* and the next piece was spawned at (3, 0) in rotation 0.
C9_Witness ==
    /\ pc = "fall"
    /\ key = " "
    /\ frames >= 1
    /\ pos = <<3, 0>>
    /\ rotation = 0
    /\ board[BOARD_HEIGHT][1] # None

NextShape == TETROMINOS[piece][((rotation + 1) % 4) + 1]

\* C10. Rejected attempts change nothing: a left move, a right move or a
\* clockwise rotation that would put a cell of the piece outside the board or
\* on an occupied cell leaves anchor, rotation, kind, board, score,
\* total_cleared, level and fall interval as they were, tries no other
\* position, and the frame goes on to its fall check (no Game Over).
C10_RejectedNoChange ==
    [][ ( /\ pc = "poll"
          /\ \/ key' = KEY_LEFT /\ ~Fits(board, shape, <<pos[1] - 1, pos[2]>>)
             \/ key' = KEY_RIGHT /\ ~Fits(board, shape, <<pos[1] + 1, pos[2]>>)
             \/ key' \in {KEY_UP, "w"} /\ ~Fits(board, NextShape, pos) )
        => /\ UNCHANGED <<board, score, total_cleared, level, fall_interval,
                          piece, rotation, shape, pos, last_fall>>
           /\ pc' = "fall"
      ]_vars

\* A rotation was rejected at the left edge, although the rotated shape would
\* have fitted one column to the right.
C10_Witness ==
    /\ pc = "fall"
    /\ key = KEY_UP
    /\ frames >= 1
    /\ ~Fits(board, NextShape, pos)
    /\ Fits(board, NextShape, <<pos[1] + 1, pos[2]>>)

\* The first anchor row y' >= y at which the shape cannot move one row further
\* down: where repeated soft drops come to rest.
RestY(b, sh, p) ==
    CHOOSE v \in p[2]..(p[2] + BOARD_HEIGHT) :
        /\ ~Fits(b, sh, <<p[1], v + 1>>)
        /\ \A u \in p[2]..(v - 1) : Fits(b, sh, <<p[1], u + 1>>)

\* C11. Hard drop and repeated soft drop agree.  A hard drop takes at most
\* BOARD_HEIGHT downward steps, leaves x, rotation and kind unchanged and
\* starts the lock-in at the first row y' >= y from which the piece cannot
\* move further down.  A soft drop that moves keeps that resting row, and a
\* soft drop starts the same lock-in exactly when the piece is already on it:
\* so the piece locked, and with it board, score and next spawn, are the same.
C11_HardDropIsSoftDrops ==
    [][ /\ (pc = "poll" /\ key' = " ")
           => /\ pos' = <<pos[1], RestY(board, shape, pos)>>
              /\ pos'[2] - pos[2] \in 0..BOARD_HEIGHT
              /\ pc' = "lock"
              /\ ret' = "key"
              /\ UNCHANGED <<gameVars, piece, rotation, shape, clockVars>>
        /\ (pc = "poll" /\ key' = KEY_DOWN)
           => /\ pos'[1] = pos[1]
              /\ RestY(board, shape, pos') = RestY(board, shape, pos)
              /\ IF pos[2] = RestY(board, shape, pos)
                 THEN pos' = pos /\ pc' = "lock" /\ ret' = "key"
                 ELSE pos' = DownPos /\ pc' = "fall"
              /\ UNCHANGED <<gameVars, piece, rotation, shape, clockVars>>
      ]_vars

\* A vertical I was hard-dropped 16 rows along the left wall.
C11_Witness ==
    /\ pc = "lock"
    /\ key = " "
    /\ frames >= 1
    /\ piece = "I"
    /\ rotation = 1
    /\ pos = <<-2, 16>>

RotScript == Len(Scripts)

\* The number of rotations made on the current piece of the rotation script
\* (5 once it has been hard-dropped).
RotationsDone == (ip - 2) % 6

\* C12. Rotation closure.  A rotate key whose next rotation state fits sets
\* rotation to (rotation + 1) mod 4 and the shape to that state of the kind,
\* at the same anchor.  For each of the 7 kinds, from rotation 0 at the spawn
\* anchor on a board where all four states fit, four rotate keys visit
\* rotations 1, 2, 3, 0 and end with the original anchor and the original
\* absolute cells.
C12_RotationClosure ==
    /\ [][ (pc = "poll" /\ key' \in {KEY_UP, "w"} /\ Fits(board, NextShape, pos))
           => /\ rotation' = (rotation + 1) % 4
              /\ shape' = TETROMINOS[piece][rotation' + 1]
              /\ pos' = pos
              /\ piece' = piece
         ]_vars
    /\ []( ( /\ scr = RotScript
             /\ frames = 0
             /\ pc \in {"poll", "fall", "render"}
             /\ RotationsDone \in 0..4 )
           => /\ \A r \in 0..3 : Fits(board, TETROMINOS[piece][r + 1], SpawnPos)
              /\ rotation = RotationsDone % 4
              /\ pos = SpawnPos
              /\ PieceCells = CellsAt(TETROMINOS[piece][rotation + 1], SpawnPos)
              /\ RotationsDone = 4 => PieceCells = SpawnCells(piece) )

\* The last kind of the rotation script, L, is back in rotation 0 after its
\* fourth rotation.
C12_Witness ==
    /\ scr = RotScript
    /\ frames = 0
    /\ pc = "fall"
    /\ piece = "L"
    /\ key = KEY_UP
    /\ RotationsDone = 4
    /\ rotation = 0

\* C13 as stated. Cooperative quit: the frame in which the quit key is read is
\* not interrupted, its automatic-fall check and its render still run.
C13_QuitFinishesFrame ==
    [][ (pc = "poll" /\ key' = "q") => pc' = "fall" ]_vars

\* C13, amended. The quit key leaves the loop at once: the automatic-fall
\* check and the render of that frame do not run, the clock is not read
\* again, no variable of the game changes, and nothing happens afterwards.
C13_QuitBreaksLoop ==
    /\ [][ (pc = "poll" /\ key' = "q")
           => /\ pc' = "quit"
              /\ UNCHANGED <<gameVars, pieceVars, clockVars, cleared>>
         ]_vars
    /\ [][ pc = "quit" => UNCHANGED vars ]_vars
    /\ [](pc = "quit" => key = "q")

\* The quit key was read while a piece was falling over locked cells.
C13_Witness ==
    /\ pc = "quit"
    /\ key = "q"
    /\ frames >= 1
    /\ pos[2] > 0
    /\ board # create_board

\* C14 as stated, its last part: the fall timer is reset to the current time
\* whatever the outcome of the attempt.  A lock-in started by the tick ends
\* with the spawn test, where the timer would be reset.
C14_TimerAlwaysReset ==
    [][ (pc = "spawn" /\ ret = "tick") => last_fall' = now ]_vars

\* C14, amended. In a frame whose time since the last automatic fall is at
\* least fall_interval exactly one downward attempt is made: the piece moves
\* down one row and the timer is set to the current time, or the lock-in runs
\* and the timer is set to the current time when the next piece fits; when
\* the next piece does not fit (Game Over) the timer keeps its value.  In a
\* frame with less time elapsed nothing is attempted and the timer is kept.
C14_FallTick ==
    [][ /\ (pc = "fall" /\ now' - last_fall >= fall_interval)
           => IF Fits(board, shape, DownPos)
              THEN /\ pos' = DownPos
                   /\ last_fall' = now'
                   /\ pc' = "render"
                   /\ UNCHANGED <<gameVars, piece, rotation, shape>>
              ELSE /\ pc' = "lock"
                   /\ ret' = "tick"
                   /\ UNCHANGED <<gameVars, pieceVars, last_fall>>
        /\ (pc = "fall" /\ now' - last_fall < fall_interval)
           => /\ pc' = "render"
              /\ UNCHANGED <<gameVars, pieceVars, last_fall>>
        /\ (pc \in {"lock", "clear", "score"}) => UNCHANGED clockVars
        /\ (pc = "spawn" /\ ret = "tick")
           => /\ now' = now
              /\ IF Fits(board, shape', pos')
                 THEN last_fall' = now /\ pc' = "render"
                 ELSE last_fall' = last_fall /\ pc' = "over"
        /\ (pc = "render") => UNCHANGED <<last_fall, pos>>
      ]_vars

\* A frame of exactly fall_interval moved the piece from the spawn row to
\* row 1 and reset the timer.
C14_Witness ==
    /\ pc = "render"
    /\ frames >= 1
    /\ key = NoKey
    /\ pos = <<3, 1>>
    /\ now = 50
    /\ fall_interval = 50
    /\ last_fall = now

\* C15. At most 4 lines per lock-in.  In every reachable game the number of
\* lines one lock-in clears is in 0..4; it is the number of all rows that are
\* full after the lock, removed together by the one call, so that no full row
\* is left; and every change of score is by 0, 100, 400, 900 or 1600.
C15_AtMostFourLines ==
    /\ [](cleared \in 0..4)
    /\ [][ pc = "clear"
           => /\ cleared' = Cardinality(FullRows(board))
              /\ cleared' \in 0..4
              /\ FullRows(board') = {}
         ]_vars
    /\ [][ score' - score \in {0, 100, 400, 900, 1600} ]_vars
    /\ [][ score' # score => pc = "score" /\ score' - score = ScoreGain(cleared) ]_vars

\* Three rows that do not lie next to each other were cleared by one
\* hard-dropped piece and 900 points were scored for them.
C15_Witness ==
    /\ pc = "spawn"
    /\ key = " "
    /\ frames >= 1
    /\ cleared = 3
    /\ score = 900
    /\ FullRows(board) = {}
    /\ board[BOARD_HEIGHT] # EmptyRow

\* C16. Frame effect of the input phase.  A frame reads at most one key (the
\* key is read at the poll only, and the next poll comes after the render).
\* A left or right key changes nothing but the anchor's x, by exactly 1 when
\* the move is accepted; a rotate key changes nothing but the rotation, to
\* (rotation + 1) mod 4 when accepted, and with it the shape of that state; an
\* unrecognised key or no key changes nothing.  None of the four changes
\* board, kind, score, total_cleared, level, fall interval or the fall timer.
C16_InputFrameEffect ==
    [][ /\ key' # key => pc = "poll"
        /\ pc = "poll" => pc' # "poll"
        /\ pc = "render" => pc' = "poll" /\ UNCHANGED <<gameVars, pieceVars, key>>
        /\ (pc = "poll" /\ key' = KEY_LEFT)
           => /\ pos' = IF Fits(board, shape, <<pos[1] - 1, pos[2]>>)
                        THEN <<pos[1] - 1, pos[2]>> ELSE pos
              /\ UNCHANGED <<gameVars, piece, rotation, shape, clockVars>>
        /\ (pc = "poll" /\ key' = KEY_RIGHT)
           => /\ pos' = IF Fits(board, shape, <<pos[1] + 1, pos[2]>>)
                        THEN <<pos[1] + 1, pos[2]>> ELSE pos
              /\ UNCHANGED <<gameVars, piece, rotation, shape, clockVars>>
        /\ (pc = "poll" /\ key' \in {KEY_UP, "w"})
           => /\ rotation' = IF Fits(board, NextShape, pos)
                             THEN (rotation + 1) % 4 ELSE rotation
              /\ shape' = TETROMINOS[piece][rotation' + 1]
              /\ UNCHANGED <<gameVars, piece, pos, clockVars>>
        /\ (pc = "poll" /\ key' \in {NoKey, "x"})
           => UNCHANGED <<gameVars, pieceVars, clockVars>>
      ]_vars

\* The letter alias of the rotate key turned a Z at the spawn position.
C16_Witness ==
    /\ pc = "fall"
    /\ key = "w"
    /\ frames >= 1
    /\ piece = "Z"
    /\ rotation = 1
    /\ pos = SpawnPos

\* The occupied cells <<x, y>> of the board.
Occupied(b) ==
    LET used == {r \in DOMAIN b : b[r] # EmptyRow}
    IN  {c \in (0..(BOARD_WIDTH - 1)) \X {r - 1 : r \in used} : IsOccupied(b, c)}

\* C17. No full row survives a lock-in: whenever the loop polls input, is
\* between the key dispatch and the fall check, or renders, no row of the
\* board has all BOARD_WIDTH cells occupied, and the number of occupied cells
\* is 4 * (pieces locked so far) - BOARD_WIDTH * total_cleared.
C17_NoFullRowSurvives ==
    pc \in {"poll", "fall", "render"}
    => /\ FullRows(board) = {}
       /\ Cardinality(Occupied(board)) = 4 * locked - BOARD_WIDTH * total_cleared

\* Ten pieces were locked and the tenth cleared four lines: the board is
\* empty again when it is rendered.
C17_Witness ==
    /\ pc = "render"
    /\ frames >= 1
    /\ locked = 10
    /\ total_cleared = 4
    /\ Occupied(board) = {}

\* C18. Every piece locks in bounded time.  While a piece is active its anchor
\* y never decreases, under any key and any tick; an automatic fall tick
\* increases y by exactly 1 or starts the lock-in of the piece at its place;
\* so the ticks a piece has seen never exceed its y while it falls, and it is
\* locked at the latest on the BOARD_HEIGHT-th tick after its spawn.
C18_LocksInBoundedTime ==
    /\ [][ pc # "spawn" => pos'[2] >= pos[2] /\ piece' = piece ]_vars
    /\ [][ (pc = "fall" /\ now' - last_fall >= fall_interval)
           => /\ ticks' = ticks + 1
              /\ \/ pos' = <<pos[1], pos[2] + 1>> /\ pc' = "render"
                 \/ pos' = pos /\ pc' = "lock" /\ ret' = "tick"
         ]_vars
    /\ [][ pc = "lock" => locked' = locked + 1 ]_vars
    /\ [](pc \in {"poll", "fall", "render"} => ticks <= pos[2])
    /\ [](ticks <= BOARD_HEIGHT)

\* An O that was moved left and right all the way down is locked by the 19th
\* tick after its spawn, on the floor.
C18_Witness ==
    /\ pc = "lock"
    /\ ret = "tick"
    /\ piece = "O"
    /\ ticks = 19
    /\ pos = <<3, 18>>
    /\ now = 950

\* C19. Termination without input.  If no key is ever pressed and the fall
\* ticks keep occurring, then for every sequence of kinds the game reaches
\* Game Over, with score 0 and total_cleared 0 throughout, since locked cells
\* only lie in columns 3..6; a first piece of kind O locks with its four
\* cells in columns 4..5 of rows 18..19.
C19_IdleGameEnds ==
    /\ [](score = 0 /\ total_cleared = 0 /\ level = 1)
    /\ [](\A c \in Occupied(board) : c[1] \in 3..6)
    /\ []( (locked = 1 /\ \E c \in Occupied(board) : board[c[2] + 1][c[1] + 1] = "O")
           => Occupied(board) = {<<4, 18>>, <<5, 18>>, <<4, 19>>, <<5, 19>>} )
    /\ <>(pc = "over")

\* The unattended game that began with an O is over; after the O came a T and
\* nothing but T.
C19_Witness ==
    /\ pc = "over"
    /\ scr = 0
    /\ score = 0
    /\ locked > MaxIdleKinds
    /\ piece = "T"
    /\ board[BOARD_HEIGHT][5] = "O"
    /\ board[BOARD_HEIGHT][4] = None
    /\ \E c \in PieceCells : IsOccupied(board, c)

\* C20. No 180-degree reversal: the direction used at a movement step of the
\* snake is never the exact opposite of the direction used at the movement
\* step before it, whatever direction keys were read between the two steps.
C20_NoReversal ==
    [][ (snake_pc = "tick" /\ snake_now' - last_tick >= speed /\ moved # "None")
        => direction # OPPOSITE[moved]
      ]_vars

====
